---- MODULE Spec2Model ----
(***************************************************************************)
(* Model of the hermes wearable firmware: the EWTS5GNB21 IMU protocol      *)
(* engine (src/imu.py), the supervisory loop around it (src/hwm.py,        *)
(* src/battery.py), the BLE manager (src/ble.py) and the flex sensor       *)
(* manager (src/flex.py).                                                  *)
(*                                                                         *)
(* A frame is a sequence of 4 bytes.  Every public method is one action;   *)
(* the methods it calls are operators over a record `m` that carries the   *)
(* object's attributes, the bus trace, the printed diagnostics and the     *)
(* pending exception (exc = "none" while the call is still running).       *)
(***************************************************************************)
EXTENDS Integers, Sequences, FiniteSets, TLC

VARIABLES
    cs,             \* chip-select pin level: 1 deselected, 0 selected
    last_response,  \* attribute last_response: <<>> or the stored frame
    error_flag,     \* attribute error_flag: {} while unset, else {0} or {1}
    imu_data,       \* attribute imu_data: the stored sample
    bus,            \* exchanges of the most recent call: [cmd, ok, rsp]
    out,            \* diagnostics printed by the most recent call
    ret,            \* how the most recent call ended
    lastOp,         \* name of the most recent call
    transport,      \* outcomes the bus had in store for the most recent call
    arg,            \* frame passed to the most recent call, <<>> if none
    nOps,           \* number of calls made so far
    wdt_feeds,      \* number of times the watchdog was fed
    battery,        \* the four battery readings kept by the hardware manager
    ble,            \* the BLE manager and what it has asked of the BLE stack
    flex            \* the flex sensor manager: voltages, finger last asked for

vars == << cs, last_response, error_flag, imu_data, bus, out, ret, lastOp,
           transport, arg, nOps, wdt_feeds, battery, ble, flex >>

(***************************************************************************)
(* Bounds                                                                  *)
(***************************************************************************)
MaxOps == 3

(***************************************************************************)
(* Protocol constants of configure_sensor and read_sensor_data             *)
(***************************************************************************)
lpf_commands ==
    << <<0, 12, 50, 67>>,
       <<7, 158, 51, 78>>,
       <<0, 12, 50, 67>>,
       <<0, 0, 35, 79>>,
       <<0, 0, 35, 79>>,
       <<0, 14, 50, 65>>,
       <<30, 0, 51, 65>>,
       <<0, 14, 50, 65>>,
       <<0, 0, 35, 79>>,
       <<0, 0, 35, 79>>,
       <<0, 0, 46, 232>>,
       <<0, 0, 46, 232>>,
       <<0, 0, 47, 233>>,
       <<0, 0, 47, 233>>,
       <<0, 0, 47, 233>> >>

lpf_bit_checks ==
    (5 :> <<7, 158, 35, 79>>) @@ (10 :> <<30, 255, 35, 255>>) @@
    (13 :> <<0, 0, 46, 232>>) @@ (15 :> <<0, 0, 47, 233>>)

mr_commands ==
    << <<0, 25, 50, 71>>,
       <<3, 2, 51, 79>>,
       <<0, 25, 50, 71>>,
       <<1, 129, 51, 70>>,
       <<0, 25, 50, 71>>,
       <<2, 132, 51, 64>>,
       <<0, 25, 50, 71>>,
       <<0, 0, 35, 79>>,
       <<0, 0, 35, 79>>,
       <<0, 244, 50, 68>>,
       <<0, 9, 51, 71>>,
       <<0, 244, 50, 68>>,
       <<0, 0, 35, 79>>,
       <<0, 0, 35, 79>>,
       <<0, 212, 50, 70>>,
       <<0, 7, 51, 73>>,
       <<0, 212, 50, 70>>,
       <<0, 0, 35, 79>>,
       <<0, 0, 35, 79>> >>

mr_bit_checks ==
    (9 :> <<3, 135, 35, 67>>) @@ (14 :> <<0, 9, 35, 70>>) @@
    (19 :> <<0, 7, 35, 72>>)

commands ==
    << <<0, 0, 175, 135>>,    \* sync
       <<0, 0, 160, 0>>,      \* gyro X
       <<0, 0, 162, 2>>,      \* gyro Y
       <<0, 0, 164, 4>>,      \* gyro Z
       <<0, 0, 166, 6>>,      \* accel X
       <<0, 0, 168, 8>>,      \* accel Y
       <<0, 0, 170, 10>>,     \* accel Z
       <<0, 0, 175, 15>> >>   \* dummy

(***************************************************************************)
(* The bus: one outcome per exchange, a received frame or a failure        *)
(***************************************************************************)
Received(f) == [ok |-> TRUE, frame |-> f]
BusError == [ok |-> FALSE, frame |-> <<>>]

(***************************************************************************)
(* EWTS5GNB21IMUManager                                                    *)
(***************************************************************************)
Raise(m, e) == [m EXCEPT !.exc = e]

\* the status field shifted by 5 instead of 6
StatusOf_shift5(f) == f[3] \div 32

\* status field of a frame: byte 2 shifted right by 6
StatusOf(f) == f[3] \div 64

get_error_flag(m) ==
    IF Len(m.last_response) < 3
    THEN Raise(m, "IndexError")
    ELSE LET flag_temp == StatusOf(m.last_response)
         IN  IF flag_temp = 1 THEN [m EXCEPT !.error_flag = {1}]
             ELSE IF flag_temp = 2 THEN [m EXCEPT !.error_flag = {0}]
             ELSE m

\* send_command with the bus failure swallowed: the zero-filled buffer
\* bytearray(4) stands in for the response
send_command_swallowed(m, cmd, outcome) ==
    LET deselected == [m EXCEPT !.cs = 1,
                                !.bus = Append(@, [cmd |-> cmd, ok |-> outcome.ok,
                                                   rsp |-> outcome.frame])]
        flagged == get_error_flag(deselected)
    IN  IF flagged.exc # "none"
        THEN flagged
        ELSE [flagged EXCEPT !.last_response =
                  IF outcome.ok THEN outcome.frame ELSE <<0, 0, 0, 0>>]

send_command(m, cmd, outcome) ==
    LET selected == [m EXCEPT !.cs = 0,
                              !.bus = Append(@, [cmd |-> cmd, ok |-> outcome.ok,
                                                 rsp |-> outcome.frame])]
    IN  IF ~outcome.ok
        THEN Raise(selected, "OSError")
        ELSE LET deselected == [selected EXCEPT !.cs = 1]
                 flagged == get_error_flag(deselected)
             IN  IF flagged.exc # "none"
                 THEN flagged
                 ELSE [flagged EXCEPT !.last_response = outcome.frame]

\* get_data_from_response with the sign bit subtracted instead of the modulus
get_data_from_response_half(response) ==
    LET raw_data == response[1] * 256 + response[2]
    IN  IF (raw_data \div 32768) % 2 = 1
        THEN raw_data - 32768
        ELSE raw_data

get_data_from_response(response) ==
    LET raw_data == response[1] * 256 + response[2]
    IN  IF (raw_data \div 32768) % 2 = 1
        THEN raw_data - 65536
        ELSE raw_data

(***************************************************************************)
(* The transport stub played against one call.  `base` fixes what every    *)
(* exchange returns, and exchange number `k` (none when k = 0) deviates:   *)
(* it fails, or one byte of its frame is corrupted, or its frame carries   *)
(* the status bits 01.                                                     *)
(*   const     : every exchange returns `frame`                            *)
(*   ideal     : the expected frame at every designated configuration      *)
(*               step, `frame` elsewhere                                   *)
(*   pipelined : the exchange after an axis command returns that axis's    *)
(*               register `axes[a]`; other exchanges return data 0         *)
(***************************************************************************)
StatusBytes == {35, 99, 171, 227}      \* status bits 00, 01, 10, 11

FillFrames == { <<18, 52, b2, 205>> : b2 \in StatusBytes }

AxisRegisters ==
    { <<4660, 32768, 65535, 1, 32767, 0>>,
      <<65534, 2, 32769, 4661, 256, 255>> }

Frame(word, b2, b3) == << word \div 256, word % 256, b2, b3 >>

\* axis (1..6) addressed by a command frame, 0 when it addresses none
AxisOf(cmd) ==
    IF cmd[3] \div 16 = 10 /\ cmd[3] % 16 < 12
    THEN (cmd[3] % 16) \div 2 + 1
    ELSE 0

Corrupt(f) == [f EXCEPT ![1] = (@ + 1) % 256]

\* the frame with its status bits set to 01
Flagged(f) == [f EXCEPT ![3] = (@ % 64) + 64]

ExpectedAt(i) ==
    IF i \in DOMAIN lpf_bit_checks THEN lpf_bit_checks[i]
    ELSE IF (i - Len(lpf_commands)) \in DOMAIN mr_bit_checks
         THEN mr_bit_checks[i - Len(lpf_commands)]
         ELSE <<>>

BaseFrame(tr, trace) ==
    LET i == Len(trace) + 1
    IN  IF tr.base = "ideal" /\ ExpectedAt(i) # <<>>
        THEN ExpectedAt(i)
        ELSE IF tr.base = "pipelined"
             THEN IF i > 1 /\ AxisOf(trace[i - 1].cmd) # 0
                  THEN Frame(tr.axes[AxisOf(trace[i - 1].cmd)], tr.frame[3], tr.frame[4])
                  ELSE Frame(0, tr.frame[3], tr.frame[4])
             ELSE tr.frame

\* outcome of the next exchange, given the exchanges of the call so far
Exchange(tr, trace) ==
    IF Len(trace) + 1 = tr.k /\ tr.dev = "fail"
    THEN BusError
    ELSE IF Len(trace) + 1 = tr.k /\ tr.dev = "corrupt"
         THEN Received(Corrupt(BaseFrame(tr, trace)))
         ELSE IF Len(trace) + 1 = tr.k /\ tr.dev = "status"
              THEN Received(Flagged(BaseFrame(tr, trace)))
              ELSE Received(BaseFrame(tr, trace))

\* the stubs of the given bases for a call of at most n exchanges
Transports(bases, n) ==
    { tr \in [ base : bases, frame : FillFrames, axes : AxisRegisters,
               k : 0..n, dev : {"none", "fail", "corrupt", "status"} ] :
        /\ (tr.dev = "none") = (tr.k = 0)
        /\ tr.base # "pipelined" => tr.axes = <<4660, 32768, 65535, 1, 32767, 0>> }

(***************************************************************************)
(* configure_sensor, read_sensor_data, get                                 *)
(***************************************************************************)
RECURSIVE send_sequence(_, _, _, _, _, _)
send_sequence(m, cmds, bit_checks, label, tr, step) ==
    IF step > Len(cmds)
    THEN m
    ELSE LET sent == send_command(m, cmds[step], Exchange(tr, m.bus))
         IN  IF sent.exc # "none"
             THEN sent
             ELSE LET checked ==
                          IF step \in DOMAIN bit_checks
                             /\ sent.last_response # bit_checks[step]
                          THEN [sent EXCEPT !.out =
                                    Append(@, [msg |-> label, step |-> step])]
                          ELSE sent
                  IN  send_sequence(checked, cmds, bit_checks, label, tr, step + 1)

\* configure_sensor that first resets the stored sample to zeros
configure_sensor_resetting(m, tr) ==
    LET reset == [m EXCEPT !.imu_data = <<0, 0, 0, 0, 0, 0>>]
        lpf == send_sequence(reset, lpf_commands, lpf_bit_checks, "LPF", tr, 1)
    IN  IF lpf.exc # "none"
        THEN lpf
        ELSE send_sequence(lpf, mr_commands, mr_bit_checks, "MR", tr, 1)

configure_sensor(m, tr) ==
    LET lpf == send_sequence(m, lpf_commands, lpf_bit_checks, "LPF", tr, 1)
    IN  IF lpf.exc # "none"
        THEN lpf
        ELSE send_sequence(lpf, mr_commands, mr_bit_checks, "MR", tr, 1)

RECURSIVE read_loop(_, _, _)
read_loop(m, tr, i) ==
    IF i > Len(commands)
    THEN m
    ELSE LET sent == send_command(m, commands[i], Exchange(tr, m.bus))
         IN  IF sent.exc # "none"
             THEN sent
             ELSE read_loop([sent EXCEPT !.new_data =
                                Append(@, get_data_from_response(sent.last_response))],
                            tr, i + 1)

read_sensor_data(m, tr) ==
    LET sync == send_command([m EXCEPT !.new_data = <<>>], commands[1],
                             Exchange(tr, m.bus))
        first == IF sync.exc # "none" THEN sync
                 ELSE send_command(sync, commands[2], Exchange(tr, sync.bus))
        looped == IF first.exc # "none" THEN first ELSE read_loop(first, tr, 3)
    IN  IF looped.exc # "none"
        THEN looped
        ELSE [looped EXCEPT !.imu_data = looped.new_data]

None == [type |-> "NoneType"]

Dict(d) ==
    [ type |-> "dict",
      gyro_x |-> d[1], gyro_y |-> d[2], gyro_z |-> d[3],
      accel_x |-> d[4], accel_y |-> d[5], accel_z |-> d[6] ]

\* get: the record m after the call, with the returned value in m.value
get(m, tr) ==
    LET read == read_sensor_data(m, tr)
    IN  IF read.exc # "none" THEN read
        ELSE IF read.error_flag = {} THEN Raise(read, "AttributeError")
        ELSE LET printed == IF read.error_flag = {1}
                            THEN [read EXCEPT !.out =
                                     Append(@, [msg |-> "IMU read error.", step |-> 0])]
                            ELSE read
             IN  IF Len(printed.imu_data) < 6
                 THEN Raise(printed, "IndexError")
                 ELSE [printed EXCEPT !.value = Dict(printed.imu_data)]

IMUMethods ==
    { "send_command", "get_data_from_response", "configure_sensor",
      "read_sensor_data", "get", "get_error_flag", "close" }

(***************************************************************************)
(* LTC4162BatteryManager: a reading is {} for None, else {value}.          *)
(* Units: voltages in 0.1 uV, battery current in 0.1 uA, input current in  *)
(* 1/145 uA, so that the float scale factors become integers.              *)
(***************************************************************************)
CURRENT_OFFSET == 32768

I2CReads == { {}, {0}, {40000} }       \* read_register: None or the register

get_input_voltage(reg_val)   == { r * 16490 : r \in reg_val }
get_battery_voltage(reg_val) == { r * 5826 : r \in reg_val }
get_input_current(reg_val)   == { (r - CURRENT_OFFSET) * 14660 : r \in reg_val }
get_battery_current(reg_val) == { (r - CURRENT_OFFSET) * 1466 : r \in reg_val }

(***************************************************************************)
(* ESP32HardwareManager                                                    *)
(***************************************************************************)
monitor_battery(h, i2c) ==
    [h EXCEPT !.battery = [ input_voltage   |-> get_input_voltage(i2c[1]),
                            battery_voltage |-> get_battery_voltage(i2c[2]),
                            input_current   |-> get_input_current(i2c[3]),
                            battery_current |-> get_battery_current(i2c[4]) ]]

reset_watchdog(h) == [h EXCEPT !.wdt_feeds = @ + 1]

monitor_system(h, i2c) ==
    LET monitored == monitor_battery(h, i2c)
    IN  IF "read_register" \notin IMUMethods
        THEN Raise(monitored, "AttributeError")
        ELSE reset_watchdog(monitored)

(***************************************************************************)
(* ESP32BLEManager.  `b` carries what the manager has asked of the BLE     *)
(* stack (the gap_advertise calls), the stack's side of the link (the      *)
(* connected centrals, the characteristic value) and the event being       *)
(* handled.                                                                *)
(***************************************************************************)
DEVICE_NAME ==       \* "ESP32_BLE_Manager"
    << 69, 83, 80, 51, 50, 95, 66, 76, 69, 95, 77, 97, 110, 97, 103, 101, 114 >>

RECURSIVE service_payload(_)
service_payload(services) ==
    IF services = <<>>
    THEN <<>>
    ELSE << Len(Head(services)) + 1, 6 >> \o Head(services)
             \o service_payload(Tail(services))

create_advertising_payload(name, services) ==
    (IF name # <<>> THEN << Len(name) + 1, 9 >> \o name ELSE <<>>)
        \o service_payload(services)

start_advertising(b) ==
    [b EXCEPT !.advertise =
         Append(@, [ interval_us |-> 100000,
                     adv_data |-> create_advertising_payload(DEVICE_NAME, <<>>) ]),
              !.out = Append(@, [msg |-> "Advertising started...", step |-> 0])]

\* _irq_handler that restarts advertising when a central connects
irq_handler_on_connect(b, ev) ==
    IF ev.event = "_IRQ_CENTRAL_CONNECT"
    THEN start_advertising([b EXCEPT !.out =
             Append(@, [msg |-> "Device connected:", step |-> ev.conn_handle])])
    ELSE IF ev.event = "_IRQ_CENTRAL_DISCONNECT"
    THEN [b EXCEPT !.out =
             Append(@, [msg |-> "Device disconnected:", step |-> ev.conn_handle])]
    ELSE b

irq_handler(b, ev) ==
    IF ev.event = "_IRQ_CENTRAL_CONNECT"
    THEN [b EXCEPT !.out =
             Append(@, [msg |-> "Device connected:", step |-> ev.conn_handle])]
    ELSE IF ev.event = "_IRQ_CENTRAL_DISCONNECT"
    THEN start_advertising([b EXCEPT !.out =
             Append(@, [msg |-> "Device disconnected:", step |-> ev.conn_handle])])
    ELSE IF ev.event = "_IRQ_GATTS_WRITE"
    THEN IF ev.attr_handle = b.char_handle
         THEN [b EXCEPT !.out =
                  Append(@, [msg |-> "Characteristic written, value:", step |-> 0])]
         ELSE b
    ELSE b

CHARACTERISTIC_VALUE_MAX_LEN == 20

RECURSIVE Log2(_)
Log2(a) == IF a < 2 THEN 0 ELSE 1 + Log2(a \div 2)

\* struct.pack('<f', n) for an integral n with |n| < 2^24: the IEEE 754
\* single of n, least significant byte first
Float32LE(n) ==
    IF n = 0
    THEN <<0, 0, 0, 0>>
    ELSE LET a == IF n < 0 THEN -n ELSE n
             biased == Log2(a) + 127
             mant == a * 2^(23 - Log2(a)) - 2^23
         IN  << mant % 256,
                (mant \div 256) % 256,
                (biased % 2) * 128 + mant \div 65536,
                (IF n < 0 THEN 128 ELSE 0) + biased \div 2 >>

\* struct.pack('<fff', *data): three values exactly, else struct.error
pack_floats_to_bytes(data) ==
    IF Len(data) # 3
    THEN [ok |-> FALSE, bytes |-> <<>>]
    ELSE [ok |-> TRUE,
          bytes |-> Float32LE(data[1]) \o Float32LE(data[2]) \o Float32LE(data[3])]

\* report_imu_data without the check of the payload length
report_imu_data_unchecked(b, accel, gyro) ==
    IF ~pack_floats_to_bytes(accel).ok \/ ~pack_floats_to_bytes(gyro).ok
    THEN [b EXCEPT !.exc = "struct.error"]
    ELSE LET payload == pack_floats_to_bytes(accel).bytes
                            \o pack_floats_to_bytes(gyro).bytes
         IN  [b EXCEPT !.value = payload,
                       !.writes = Append(@, [handle |-> b.char_handle,
                                             data |-> payload]),
                       !.notifies = Append(@, [conn_handle |-> 0,
                                               handle |-> b.char_handle])]

report_imu_data(b, accel, gyro) ==
    IF ~pack_floats_to_bytes(accel).ok \/ ~pack_floats_to_bytes(gyro).ok
    THEN [b EXCEPT !.exc = "struct.error"]
    ELSE LET payload == pack_floats_to_bytes(accel).bytes
                            \o pack_floats_to_bytes(gyro).bytes
         IN  IF Len(payload) > CHARACTERISTIC_VALUE_MAX_LEN
             THEN [b EXCEPT !.out = Append(@,
                      [msg |-> "Error: IMU data exceeds characteristic value limit!",
                       step |-> 0])]
             ELSE [b EXCEPT !.value = payload,
                            !.writes = Append(@, [handle |-> b.char_handle,
                                                  data |-> payload]),
                            !.notifies = Append(@, [conn_handle |-> 0,
                                                    handle |-> b.char_handle])]

\* the manager after __init__: service registered, nothing advertised,
\* written or notified yet
Registered ==
    [ char_handle |-> 1, advertise |-> <<>>, connected |-> {}, value |-> <<>>,
      event |-> [event |-> "none", conn_handle |-> 0, attr_handle |-> 0],
      writes |-> <<>>, notifies |-> <<>>, out |-> <<>>, exc |-> "none" ]

\* accel and gyro vectors handed to report_imu_data
Vectors ==
    { <<0, 0, 0>>, <<1, -1, 32767>>, <<-32768, 16384, 4660>>,
      <<1, 2>>, <<1, 2, 3, 4>> }

\* the events the stack can deliver next
StackEvents(b) ==
    { [event |-> "_IRQ_CENTRAL_CONNECT", conn_handle |-> h, attr_handle |-> 0] :
          h \in {0, 1, 2} \ b.connected }
    \cup
    [ event : {"_IRQ_CENTRAL_DISCONNECT", "_IRQ_MTU_EXCHANGED"},
      conn_handle : b.connected, attr_handle : {0} ]
    \cup
    [ event : {"_IRQ_GATTS_WRITE"}, conn_handle : b.connected,
      attr_handle : {b.char_handle, b.char_handle + 1} ]

\* the stack's side of an event, done before the handler runs
StackDoes(b, ev, written) ==
    [b EXCEPT !.event = ev,
              !.out = <<>>,
              !.connected = IF ev.event = "_IRQ_CENTRAL_CONNECT"
                            THEN @ \cup {ev.conn_handle}
                            ELSE IF ev.event = "_IRQ_CENTRAL_DISCONNECT"
                            THEN @ \ {ev.conn_handle}
                            ELSE @,
              !.value = IF ev.event = "_IRQ_GATTS_WRITE"
                           /\ ev.attr_handle = b.char_handle
                        THEN written ELSE @]

(***************************************************************************)
(* FlexSensorManager.  A Python list is a sequence here, so that Python's  *)
(* element i is element i + 1 of the sequence.  Voltages are in units of   *)
(* 1/4095 mV, so that the scale factor 3.3 / 4095 V becomes an integer.    *)
(***************************************************************************)
FINGER_RESISTOR_MAP ==
    ("Thumb" :> 1) @@ ("Index" :> 2) @@ ("Middle" :> 3) @@ ("Ring" :> 4)
        @@ ("Pinky" :> 5)

ADCReads == {0, 2048, 4095}            \* adc.read() of one strip

read_resistor(count) == count * 3300

RECURSIVE read_resistor_strips_loop(_, _, _)
read_resistor_strips_loop(fx, adcs, i) ==
    IF i > Len(adcs)
    THEN fx
    ELSE read_resistor_strips_loop(
             [fx EXCEPT !.voltages = Append(@, read_resistor(adcs[i]))],
             adcs, i + 1)

read_resistor_strips(fx, adcs) ==
    read_resistor_strips_loop([fx EXCEPT !.voltages = <<>>], adcs, 1)

Float(v) == [type |-> "float", volts |-> v]

get_finger(fx, finger) ==
    LET index == FINGER_RESISTOR_MAP[finger]
    IN  IF index >= Len(fx.voltages)
        THEN [fx EXCEPT !.exc = "IndexError"]
        ELSE [fx EXCEPT !.value = Float(fx.voltages[index + 1])]

\* the manager after __init__: nothing read yet
Unread == [voltages |-> <<>>, finger |-> "none"]

(***************************************************************************)
(* State machine                                                           *)
(***************************************************************************)
Returned(v) == [kind |-> "return", exc |-> "none", value |-> v]
Raised(e)   == [kind |-> "raise", exc |-> e, value |-> None]

NoTransport ==
    [ base |-> "const", frame |-> <<18, 52, 35, 205>>,
      axes |-> <<4660, 32768, 65535, 1, 32767, 0>>, k |-> 0, dev |-> "none" ]

NoBattery ==
    [ input_voltage |-> {}, battery_voltage |-> {},
      input_current |-> {}, battery_current |-> {} ]

Init ==
    /\ cs = 1
    /\ last_response = <<>>
    /\ error_flag = {}
    /\ imu_data = <<>>
    /\ bus = <<>>
    /\ out = <<>>
    /\ ret = Returned(None)
    /\ lastOp = "__init__"
    /\ transport = NoTransport
    /\ arg = <<>>
    /\ nOps = 0
    /\ wdt_feeds = 0
    /\ battery = NoBattery
    /\ ble = Registered
    /\ flex = Unread

\* the manager as a call finds it
Self ==
    [ cs |-> cs, last_response |-> last_response, error_flag |-> error_flag,
      imu_data |-> imu_data, bus |-> <<>>, out |-> <<>>, exc |-> "none",
      new_data |-> <<>>, value |-> None ]

\* the state a call on the manager leaves behind
Leave(m, op, tr, a) ==
    /\ cs' = m.cs
    /\ last_response' = m.last_response
    /\ error_flag' = m.error_flag
    /\ imu_data' = m.imu_data
    /\ bus' = m.bus
    /\ out' = m.out
    /\ ret' = IF m.exc = "none" THEN Returned(m.value) ELSE Raised(m.exc)
    /\ lastOp' = op
    /\ transport' = tr
    /\ arg' = a
    /\ nOps' = nOps + 1
    /\ UNCHANGED << wdt_feeds, battery, ble, flex >>

CallSendCommand ==
    /\ nOps < MaxOps
    /\ \E i \in DOMAIN commands, tr \in Transports({"const"}, 1) :
           Leave(send_command(Self, commands[i], Exchange(tr, <<>>)),
                 "send_command", tr, commands[i])

CallGetErrorFlag ==
    /\ nOps < MaxOps
    /\ Leave(get_error_flag(Self), "get_error_flag", NoTransport, <<>>)

CallConfigureSensor ==
    /\ nOps < MaxOps
    /\ \E tr \in Transports({"const", "ideal"}, Len(lpf_commands) + Len(mr_commands)) :
           Leave(configure_sensor(Self, tr), "configure_sensor", tr, <<>>)

CallReadSensorData ==
    /\ nOps < MaxOps
    /\ \E tr \in Transports({"const", "pipelined"}, Len(commands)) :
           Leave(read_sensor_data(Self, tr), "read_sensor_data", tr, <<>>)

CallGet ==
    /\ nOps < MaxOps
    /\ \E tr \in Transports({"const", "pipelined"}, Len(commands)) :
           Leave(get(Self, tr), "get", tr, <<>>)

TimerFires ==
    /\ nOps < MaxOps
    /\ \E i2c \in [1..4 -> I2CReads] :
           LET h == monitor_system([battery |-> battery, wdt_feeds |-> wdt_feeds,
                                    exc |-> "none"], i2c)
           IN  /\ battery' = h.battery
               /\ wdt_feeds' = h.wdt_feeds
               /\ ret' = IF h.exc = "none" THEN Returned(None) ELSE Raised(h.exc)
    /\ lastOp' = "monitor_system"
    /\ bus' = <<>>
    /\ out' = <<>>
    /\ transport' = NoTransport
    /\ arg' = <<>>
    /\ nOps' = nOps + 1
    /\ UNCHANGED << cs, last_response, error_flag, imu_data, ble, flex >>

Next ==
    \/ CallSendCommand
    \/ CallGetErrorFlag
    \/ CallConfigureSensor
    \/ CallReadSensorData
    \/ CallGet

Spec == Init /\ [][Next]_vars

\* the supervisory loop: the periodic timer is the only caller
NextHwm == TimerFires

SpecHwm == Init /\ [][NextHwm]_vars

(***************************************************************************)
(* The BLE stack calling back, and the application starting to advertise   *)
(***************************************************************************)
LeaveBle(b, op, a) ==
    /\ ble' = [b EXCEPT !.out = <<>>, !.exc = "none"]
    /\ out' = b.out
    /\ ret' = IF b.exc = "none" THEN Returned(None) ELSE Raised(b.exc)
    /\ lastOp' = op
    /\ arg' = a
    /\ nOps' = nOps + 1
    /\ UNCHANGED << cs, last_response, error_flag, imu_data, bus, transport,
                    wdt_feeds, battery, flex >>

Irq ==
    /\ nOps < MaxOps
    /\ \E ev \in StackEvents(ble), written \in {<<0>>, <<1>>, <<2, 0>>} :
           /\ (ev.event = "_IRQ_GATTS_WRITE" /\ ev.attr_handle = ble.char_handle)
                  \/ written = <<0>>
           /\ LeaveBle(irq_handler(StackDoes(ble, ev, written), ev), "_irq_handler",
                       <<>>)

CallStartAdvertising ==
    /\ nOps < MaxOps
    /\ LeaveBle(start_advertising([ble EXCEPT !.event = Registered.event]),
                "start_advertising", <<>>)

CallReportImuData ==
    /\ nOps < MaxOps
    /\ \E accel \in Vectors, gyro \in Vectors :
           LeaveBle(report_imu_data([ble EXCEPT !.event = Registered.event],
                                    accel, gyro),
                    "report_imu_data", << accel, gyro >>)

NextBle ==
    \/ Irq
    \/ CallStartAdvertising
    \/ CallReportImuData

SpecBle == Init /\ [][NextBle]_vars

(***************************************************************************)
(* The flex sensor manager: the strips are read and fingers are asked for  *)
(***************************************************************************)
LeaveFlex(fx, op, finger) ==
    /\ flex' = [voltages |-> fx.voltages, finger |-> finger]
    /\ ret' = IF fx.exc = "none" THEN Returned(fx.value) ELSE Raised(fx.exc)
    /\ lastOp' = op
    /\ nOps' = nOps + 1
    /\ UNCHANGED << cs, last_response, error_flag, imu_data, bus, out, transport,
                    arg, wdt_feeds, battery, ble >>

SelfFlex == [voltages |-> flex.voltages, exc |-> "none", value |-> None]

CallReadResistorStrips ==
    /\ nOps < MaxOps
    /\ \E adcs \in [1..5 -> ADCReads] :
           LeaveFlex(read_resistor_strips(SelfFlex, adcs), "read_resistor_strips",
                     "none")

CallGetFinger ==
    /\ nOps < MaxOps
    /\ \E finger \in DOMAIN FINGER_RESISTOR_MAP :
           LeaveFlex(get_finger(SelfFlex, finger), "get_finger", finger)

NextFlex ==
    \/ CallReadResistorStrips
    \/ CallGetFinger

SpecFlex == Init /\ [][NextFlex]_vars

(***************************************************************************)
(* get_data_from_response on its own: every 16-bit data field, applied     *)
(* once                                                                    *)
(***************************************************************************)
InitDecode ==
    /\ cs = 1
    /\ last_response = <<>>
    /\ error_flag = {}
    /\ imu_data = <<>>
    /\ bus = <<>>
    /\ out = <<>>
    /\ ret = Returned(None)
    /\ lastOp = "__init__"
    /\ transport = NoTransport
    /\ arg \in { <<b0, b1, b2, 0>> : b0 \in 0..255, b1 \in 0..255, b2 \in {0, 255} }
    /\ nOps = 0
    /\ wdt_feeds = 0
    /\ battery = NoBattery
    /\ ble = Registered
    /\ flex = Unread

CallGetDataFromResponse ==
    /\ lastOp = "__init__"
    /\ ret' = Returned([type |-> "int", int |-> get_data_from_response(arg)])
    /\ lastOp' = "get_data_from_response"
    /\ nOps' = nOps + 1
    /\ UNCHANGED << cs, last_response, error_flag, imu_data, bus, out,
                    transport, arg, wdt_feeds, battery, ble, flex >>

NextDecode == CallGetDataFromResponse

SpecDecode == InitDecode /\ [][NextDecode]_vars

(***************************************************************************)
(* Frame decode on its own: the two extractions of the code, the data      *)
(* field (get_data_from_response) and the status field (get_error_flag),   *)
(* applied once to a frame with any byte 2                                 *)
(***************************************************************************)
InitFrame ==
    /\ cs = 1
    /\ last_response = <<>>
    /\ error_flag = {}
    /\ imu_data = <<>>
    /\ bus = <<>>
    /\ out = <<>>
    /\ ret = Returned(None)
    /\ lastOp = "__init__"
    /\ transport = NoTransport
    /\ arg \in { <<b0, b1, b2, b3>> : b0 \in {0, 127, 128, 255}, b1 \in {0, 255},
                                      b2 \in 0..255, b3 \in {0, 15} }
    /\ nOps = 0
    /\ wdt_feeds = 0
    /\ battery = NoBattery
    /\ ble = Registered
    /\ flex = Unread

DecodeFrame ==
    /\ lastOp = "__init__"
    /\ LET m == get_error_flag([Self EXCEPT !.last_response = arg])
       IN  ret' = IF m.exc # "none" THEN Raised(m.exc)
                  ELSE Returned([ type |-> "fields",
                                  data |-> get_data_from_response(arg),
                                  status |-> StatusOf(arg),
                                  error_flag |-> m.error_flag ])
    /\ lastOp' = "decode"
    /\ nOps' = nOps + 1
    /\ UNCHANGED << cs, last_response, error_flag, imu_data, bus, out,
                    transport, arg, wdt_feeds, battery, ble, flex >>

NextFrame == DecodeFrame

SpecFrame == InitFrame /\ [][NextFrame]_vars

(***************************************************************************)
(* Properties                                                              *)
(***************************************************************************)
\* two's-complement reading of a 16-bit field, as the specification words it
Signed16(r) == IF r < 32768 THEN r ELSE r - 65536

\* frame the stub returns at exchange i of a configuration run
ResponseAt(tr, i) ==
    Exchange(tr, [j \in 1..(i - 1) |-> [cmd |-> <<0, 0, 0, 0>>]]).frame

\* designated steps whose response differs from the expected frame
Mismatches(tr) ==
    { <<"LPF", s>> : s \in { t \in DOMAIN lpf_bit_checks :
                              ResponseAt(tr, t) # lpf_bit_checks[t] } }
    \cup
    { <<"MR", s>> : s \in { t \in DOMAIN mr_bit_checks :
                             ResponseAt(tr, Len(lpf_commands) + t) # mr_bit_checks[t] } }

AllExchangesOk == \A i \in DOMAIN bus : bus[i].ok

\* C1: after a send_command whose exchange returned R, the error flag is 1 if
\* the status bits of R are 01, 0 if they are 10, and otherwise what it was
\* before the call.
C1_FlagFollowsOwnResponse ==
    [][ (lastOp' = "send_command" /\ bus'[1].ok) =>
            /\ ret'.kind = "return"
            /\ error_flag' = IF StatusOf(bus'[1].rsp) = 1 THEN {1}
                             ELSE IF StatusOf(bus'[1].rsp) = 2 THEN {0}
                             ELSE error_flag ]_vars

\* C2: against a pipelined transport that never fails, get() returns the six
\* axes as the signed readings of the registers asked for by commands 2..7,
\* in that order.
C2_PipelinedSampleReturned ==
    (lastOp = "get" /\ transport.base = "pipelined" /\ transport.dev = "none") =>
        /\ ret.kind = "return"
        /\ ret.value = Dict([a \in 1..6 |-> Signed16(transport.axes[a])])

\* C3: whenever the bus did not fail, get() returns the six axes together
\* with a validity flag that is false exactly when the error flag is 1.
C3_SampleCarriesValidity ==
    (lastOp = "get" /\ AllExchangesOk) =>
        /\ ret.kind = "return"
        /\ DOMAIN Dict(<<0, 0, 0, 0, 0, 0>>) \subseteq DOMAIN ret.value
        /\ "valid" \in DOMAIN ret.value
        /\ ret.value.valid = (error_flag # {1})

\* C4: on a bus that does not fail, configure_sensor reports a verification
\* failure for exactly the designated steps whose response differs from the
\* expected frame, each once.
C4_FailuresAreTheMismatches ==
    (lastOp = "configure_sensor" /\ transport.dev # "fail") =>
        /\ ret.kind = "return"
        /\ { <<out[j].msg, out[j].step>> : j \in DOMAIN out } = Mismatches(transport)
        /\ Len(out) = Cardinality(Mismatches(transport))

\* C5: configure_sensor returns the number of designated steps, over both
\* sequences, whose response mismatched.
C5_ReturnsFailureCount ==
    (lastOp = "configure_sensor" /\ transport.dev # "fail") =>
        /\ ret.kind = "return"
        /\ ret.value.type = "int"
        /\ ret.value.int = Cardinality(Mismatches(transport))

\* C6: on a bus that does not fail, whatever the responses, configure_sensor
\* sends the 15 LPF frames and then the 19 MR frames, in table order, and
\* returns.
C6_WholeCommandStream ==
    (lastOp = "configure_sensor" /\ transport.dev # "fail") =>
        /\ ret.kind = "return"
        /\ [i \in DOMAIN bus |-> bus[i].cmd] = lpf_commands \o mr_commands

\* C7: when an exchange of an acquisition fails, the call ends by raising the
\* bus failure, returns no sample, and imu_data is what it was before the call.
C7_FailureLeavesSample ==
    [][ (lastOp' \in {"get", "read_sensor_data"} /\ \E i \in DOMAIN bus' : ~bus'[i].ok) =>
            /\ ret' = Raised("OSError")
            /\ imu_data' = imu_data ]_vars

C7_Witness ==
    /\ lastOp \in {"get", "read_sensor_data"}
    /\ \E i \in DOMAIN bus : ~bus[i].ok
    /\ ret = Raised("OSError")
    /\ transport.dev = "fail"

\* C8: the chip select is high whenever no send_command is executing, also
\* after one that ended with a bus failure.
C8_DeselectedBetweenCalls == cs = 1

\* C9: every run of the periodic monitor_system callback has fed the
\* watchdog by the time it ends.
C9_EveryCycleFeeds ==
    lastOp = "monitor_system" => (wdt_feeds = nOps /\ ret.kind = "return")

\* C10: for the data field r of any response, get_data_from_response returns
\* r below 0x8000 and r - 0x10000 from there on; the result lies in
\* -32768..32767 and r is recovered from it modulo 65536, so the map is a
\* bijection between 0..65535 and -32768..32767.
C10_SignedDecode ==
    lastOp = "get_data_from_response" =>
        LET r == arg[1] * 256 + arg[2]
            v == ret.value.int
        IN  /\ v = Signed16(r)
            /\ v \in -32768..32767
            /\ (v + 65536) % 65536 = r

C10_Witness ==
    /\ lastOp = "get_data_from_response"
    /\ arg[1] * 256 + arg[2] = 65535
    /\ ret.value.int = -1

\* C11: decoding any 4-byte frame does not fail, and its status field, the
\* top two bits of byte 2, is one of 0, 1, 2, 3.
C11_DecodeTotal ==
    (lastOp = "decode" /\ Len(arg) = 4) =>
        /\ ret.kind = "return"
        /\ ret.value.status \in {0, 1, 2, 3}
        /\ ret.value.status * 64 <= arg[3]
        /\ arg[3] < (ret.value.status + 1) * 64
        /\ ret.value.data \in -32768..32767

C11_Witness ==
    /\ lastOp = "decode"
    /\ arg[3] = 255
    /\ ret.kind = "return"
    /\ ret.value.status = 3

\* C12: against an ideal transport, every run of configure_sensor, the first
\* from the initial state and the one after it, returns with no verification
\* failure and leaves the error state OK.
C12_IdealRunsClean ==
    (lastOp = "configure_sensor" /\ transport.base = "ideal"
        /\ transport.dev = "none" /\ StatusOf(transport.frame) # 1) =>
        /\ ret.kind = "return"
        /\ out = <<>>
        /\ error_flag # {1}

\* C13: when every exchange returns 12 34 AB CD, get() returns 4660 for each
\* of the six axes and the error flag is cleared afterwards.
C13_ConstantTransport ==
    (lastOp = "get" /\ transport.base = "const" /\ transport.dev = "none"
        /\ transport.frame = <<18, 52, 171, 205>>) =>
        /\ ret.kind = "return"
        /\ ret.value = Dict(<<4660, 4660, 4660, 4660, 4660, 4660>>)
        /\ error_flag = {0}

\* C14: on a freshly constructed manager, before any call, the error flag is
\* defined and is 0.
C14_InitiallyOk == nOps = 0 => error_flag = {0}

\* C16: on a bus that does not fail, read_sensor_data performs exactly the 8
\* exchanges sync, gyro X, gyro Y, gyro Z, accel X, accel Y, accel Z, flush,
\* in that order, whatever the responses are.
C16_AcquisitionStream ==
    (lastOp \in {"read_sensor_data", "get"} /\ transport.dev # "fail") =>
        [i \in DOMAIN bus |-> bus[i].cmd] = commands

\* C17: once a call's most recent exchange has returned a frame,
\* last_response is exactly that 4-byte frame.
C17_LastResponseIsLatest ==
    (bus # <<>> /\ bus[Len(bus)].ok) =>
        /\ Len(last_response) = 4
        /\ last_response = bus[Len(bus)].rsp

\* the manager as __init__ leaves it
Constructed ==
    [ cs |-> 1, last_response |-> <<>>, error_flag |-> {}, imu_data |-> <<>>,
      bus |-> <<>>, out |-> <<>>, exc |-> "none", new_data |-> <<>>,
      value |-> None ]

C20_DisconnectRestartsAdvertising ==
    [][ lastOp' = "_irq_handler" =>
            /\ ret'.kind = "return"
            /\ ble'.advertise =
                   IF ble'.event.event = "_IRQ_CENTRAL_DISCONNECT"
                   THEN Append(ble.advertise,
                               [ interval_us |-> 100000,
                                 adv_data |-> << 18, 9, 69, 83, 80, 51, 50, 95, 66,
                                                 76, 69, 95, 77, 97, 110, 97, 103,
                                                 101, 114 >> ])
                   ELSE ble.advertise ]_vars

C20_Witness ==
    /\ lastOp = "_irq_handler"
    /\ ble.event.event = "_IRQ_CENTRAL_DISCONNECT"
    /\ Len(ble.advertise) = 1
    /\ ble.connected = {}

\* the error state after the responses of a trace, starting from `flag`: the
\* last response with status 01 or 10 decides, as the specification words it
FlagOver(flag, trace) ==
    LET decisive == { i \in DOMAIN trace : StatusOf(trace[i].rsp) \in {1, 2} }
    IN  IF decisive = {}
        THEN flag
        ELSE LET last == CHOOSE i \in decisive : \A j \in decisive : j <= i
             IN  IF StatusOf(trace[last].rsp) = 1 THEN {1} ELSE {0}

\* C21: when get() consults the error flag, on a bus that did not fail, the
\* flag accounts for the status bits of all 8 responses of that acquisition,
\* the response of the flush exchange included, and the read error is
\* reported in the same call exactly when that flag is 1.
C21_ValidityCoversAcquisition ==
    [][ (lastOp' = "get" /\ \A i \in DOMAIN bus' : bus'[i].ok) =>
            /\ Len(bus') = Len(commands)
            /\ error_flag' = FlagOver(error_flag, bus')
            /\ (\E j \in DOMAIN out' : out'[j].msg = "IMU read error.")
                   = (error_flag' = {1}) ]_vars

\* C22: on a freshly constructed manager, a send_command whose exchange
\* succeeds returns without raising and stores the received 4-byte frame in
\* last_response, and configure_sensor and read_sensor_data run to completion
\* when no exchange fails.
C22_FirstExchangeCompletes ==
    [][ /\ (nOps = 0 /\ lastOp' = "send_command" /\ bus'[1].ok) =>
                /\ ret'.kind = "return"
                /\ Len(last_response') = 4
                /\ last_response' = bus'[1].rsp
        /\ (nOps = 0 /\ lastOp' \in {"configure_sensor", "read_sensor_data"}
                /\ transport'.dev # "fail") =>
                ret'.kind = "return" ]_vars

\* C23: report_imu_data never writes a characteristic value longer than 20
\* bytes; when the packed payload is longer than that it calls neither
\* gatts_write nor gatts_notify; and a 3-component accel with a 3-component
\* gyro packs to 24 bytes, so such a call returns with nothing written and
\* nothing notified.
C23_PayloadBound ==
    [][ lastOp' = "report_imu_data" =>
            LET accel == pack_floats_to_bytes(arg'[1])
                gyro == pack_floats_to_bytes(arg'[2])
            IN  /\ \A i \in DOMAIN ble'.writes : Len(ble'.writes[i].data) <= 20
                /\ (accel.ok /\ gyro.ok /\ Len(accel.bytes \o gyro.bytes) > 20) =>
                        /\ ble'.writes = ble.writes
                        /\ ble'.notifies = ble.notifies
                        /\ ble'.value = ble.value
                /\ (Len(arg'[1]) = 3 /\ Len(arg'[2]) = 3) =>
                        /\ Len(accel.bytes \o gyro.bytes) = 24
                        /\ ret'.kind = "return"
                        /\ ble'.writes = ble.writes
                        /\ ble'.notifies = ble.notifies ]_vars

C23_Witness ==
    /\ lastOp = "report_imu_data"
    /\ Len(arg[1]) = 3
    /\ Len(arg[2]) = 3
    /\ ble.connected # {}
    /\ ret.kind = "return"
    /\ \E j \in DOMAIN out :
           out[j].msg = "Error: IMU data exceeds characteristic value limit!"
    /\ ble.writes = <<>>
    /\ ble.notifies = <<>>

\* C24: once read_resistor_strips has stored the five voltages, get_finger(f)
\* returns, for each of the five finger names, the voltage of the strip the
\* map gives for f (strip n being the n-th of the five), and distinct fingers
\* have distinct strips.
C24_FingerInBounds ==
    (lastOp = "get_finger" /\ Len(flex.voltages) = 5) =>
        /\ ret.kind = "return"
        /\ ret.value = Float(flex.voltages[FINGER_RESISTOR_MAP[flex.finger]])
        /\ \A f, g \in DOMAIN FINGER_RESISTOR_MAP :
               f # g => FINGER_RESISTOR_MAP[f] # FINGER_RESISTOR_MAP[g]

====
